---------------------------- MODULE Spec2Model ----------------------------
(***************************************************************************)
(* P25 baseband core: the BCH(63,16,23) codec over GF(2^6) and the C4FM     *)
(* symbol shaper with its deviation-test pattern.                           *)
(*                                                                          *)
(* Representation.  A 64-bit word is the set of its one bits (a subset of   *)
(* 0..63): XOR is symmetric difference, count_ones is Cardinality.  A       *)
(* 16-bit data word is a number in 0..65535.  A field element is its 6-bit  *)
(* polynomial form, a number in 0..63.  A polynomial is the tuple of its    *)
(* coefficients, coefficient i at index i + 1.  An f32 impulse is counted   *)
(* in hundredths (0.18 is 18).  Option<T> is a record with a tag.           *)
(***************************************************************************)
EXTENDS Integers, Sequences, FiniteSets, TLC

VARIABLES
    data,       \* bch: the 16-bit word handed to encode
    err,        \* bch: the error pattern applied to the codeword
    recv,       \* bch: the received 64-bit word
    res,        \* bch: what decode returned
    pc,         \* bch: "idle", "encoded", "received", "decoded"
    fed,        \* C4fmImpulses: the dibits the source was built from
    src,        \* C4fmImpulses.src: the dibits not yet pulled
    sample,     \* C4fmImpulses.sample
    out,        \* C4fmImpulses: what the last next() returned
    idx,        \* C4fmDeviationDibits.idx
    devCalls,   \* C4fmDeviationDibits: number of next() calls made
    devOut      \* C4fmDeviationDibits: dibit returned by the last next()

vars == <<data, err, recv, res, pc, fed, src, sample, out, idx, devCalls, devOut>>
bchVars == <<data, err, recv, res, pc>>
impVars == <<fed, src, sample, out>>
devVars == <<idx, devCalls, devOut>>

---------------------------------------------------------------------------
(* Bit helpers *)

Pow2(n) == 2 ^ n

\* The one bits of a 16-bit number.
Bits16(n) == {i \in 0..15 : (n \div Pow2(i)) % 2 = 1}

\* The number whose one bits are the set s (s within 0..15).
RECURSIVE FromBits(_, _)
FromBits(s, i) ==
    IF i > 15 THEN 0
    ELSE (IF i \in s THEN Pow2(i) ELSE 0) + FromBits(s, i + 1)

\* a ^ b on 64-bit words.
XorWord(a, b) == (a \ b) \cup (b \ a)

\* w >> n on a 64-bit word.
ShiftRight(w, n) == {b - n : b \in {c \in w : c >= n}}

\* a ^ b on 6-bit numbers, bit by bit.
BitOf(a, i) == (a \div Pow2(i)) % 2
XorBit(a, b, i) == ((BitOf(a, i) + BitOf(b, i)) % 2) * Pow2(i)
XorInt(a, b) ==
    XorBit(a, b, 0) + XorBit(a, b, 1) + XorBit(a, b, 2)
    + XorBit(a, b, 3) + XorBit(a, b, 4) + XorBit(a, b, 5)

---------------------------------------------------------------------------
(* GF(2^6), primitive polynomial x^6 + x + 1 *)

FieldSize == 63

\* alpha * x: shift left and reduce by x^6 + x + 1.
TimesAlpha(x) == IF 2 * x >= 64 THEN XorInt(2 * x - 64, 3) ELSE 2 * x

\* exp table: ExpTable[k + 1] = alpha^k, k in 0..62.
ExpTable == <<
    1, 2, 4, 8, 16, 32, 3, 6, 12, 24, 48, 35, 5, 10, 20, 40,
    19, 38, 15, 30, 60, 59, 53, 41, 17, 34, 7, 14, 28, 56, 51, 37,
    9, 18, 36, 11, 22, 44, 27, 54, 47, 29, 58, 55, 45, 25, 50, 39,
    13, 26, 52, 43, 21, 42, 23, 46, 31, 62, 63, 61, 57, 49, 33 >>

\* The table is the powers of alpha: each entry is alpha times the one before,
\* and alpha^63 is alpha^0 again.
ExpTableIsPowers ==
    /\ ExpTable[1] = 1
    /\ \A k \in 1..(FieldSize - 1) : ExpTable[k + 1] = TimesAlpha(ExpTable[k])
    /\ TimesAlpha(ExpTable[FieldSize]) = 1

\* log table: LogTable[x] = k with alpha^k = x, x in 1..63.
LogTable == <<>> \o [x \in 1..FieldSize |->
                        CHOOSE k \in 0..(FieldSize - 1) : ExpTable[k + 1] = x]

\* P25Codeword::for_power
for_power(k) == ExpTable[(k % FieldSize) + 1]

\* Addition table of the field (XOR of polynomial forms).
AddTable == <<>> \o [a \in 1..64 |-> <<>> \o [b \in 1..64 |-> XorInt(a - 1, b - 1)]]

GfAdd(a, b) == AddTable[a + 1][b + 1]

GfMul(a, b) ==
    IF a = 0 \/ b = 0 THEN 0
    ELSE ExpTable[((LogTable[a] + LogTable[b]) % FieldSize) + 1]

\* Inverse of a nonzero element.
GfInv(a) == ExpTable[((FieldSize - LogTable[a]) % FieldSize) + 1]

GfDiv(a, b) == GfMul(a, GfInv(b))

\* Sum (XOR) of s[lo..hi], s a tuple of field elements.
RECURSIVE GfSum(_, _, _)
GfSum(s, lo, hi) ==
    IF lo > hi THEN 0
    ELSE IF lo = hi THEN s[lo]
    ELSE LET mid == (lo + hi) \div 2
         IN  GfAdd(GfSum(s, lo, mid), GfSum(s, mid + 1, hi))

---------------------------------------------------------------------------
(* Polynomials over GF(2^6) with the fixed capacity of BCHCoefs *)

\* impl PolynomialCoefs for BCHCoefs: distance()
Distance == 23

\* struct BCHCoefs([P25Codeword; 22 + 2])
Capacity == 22 + 2

\* Polynomial::new: the coefficients c (a tuple), the rest zero.
PolyNew(c) == <<>> \o [i \in 1..Capacity |-> IF i <= Len(c) THEN c[i] ELSE 0]

PolyOne == PolyNew(<<1>>)

\* Polynomial::coef
PolyCoef(p, i) == IF i >= 0 /\ i < Capacity THEN p[i + 1] ELSE 0

NoDegree == -1

\* Polynomial::degree: index of the highest nonzero coefficient, NoDegree
\* for the zero polynomial.
PolyDegree(p) ==
    LET nz == {i \in 0..(Capacity - 1) : p[i + 1] # 0}
    IN  IF nz = {} THEN NoDegree ELSE CHOOSE i \in nz : \A j \in nz : j <= i

\* p + c * x^m * q, truncated to the capacity.
PolyAddScaledShift(p, c, m, q) ==
    <<>> \o [i \in 1..Capacity |->
                IF i - m >= 1 THEN GfAdd(p[i], GfMul(c, q[i - m])) ELSE p[i]]

\* x^j for a field element x.
GfPow(x, j) ==
    IF j = 0 THEN 1
    ELSE IF x = 0 THEN 0
    ELSE ExpTable[((LogTable[x] * j) % FieldSize) + 1]

\* Polynomial::eval: the value of p at x, the sum of p_j * x^j (the value
\* Horner's method computes).
PolyEval(p, x) ==
    GfSum([i \in 1..Capacity |-> GfMul(p[i], GfPow(x, i - 1))], 1, Capacity)

---------------------------------------------------------------------------
(* BCH(63,16,23): encode *)

\* Generator matrix, one 16-bit row per parity bit.
GEN == <<
    \b1110110001000111, \b1001101001100100, \b0100110100110010, \b0010011010011001,
    \b1111111100001011, \b1001001111000010, \b0100100111100001, \b1100100010110111,
    \b1000100000011100, \b0100010000001110, \b0010001000000111, \b1111110101000100,
    \b0111111010100010, \b0011111101010001, \b1111001111101111, \b1001010110110000,
    \b0100101011011000, \b0010010101101100, \b0001001010110110, \b0000100101011011,
    \b1110100011101010, \b0111010001110101, \b1101011001111101, \b1000011101111001,
    \b1010111111111011, \b1011101110111010, \b0101110111011101, \b1100001010101001,
    \b1000110100010011, \b1010101011001110, \b0101010101100111, \b1100011011110100,
    \b0110001101111010, \b0011000110111101, \b1111010010011001, \b1001011000001011,
    \b1010011101000010, \b0101001110100001, \b1100010110010111, \b1000111010001100,
    \b0100011101000110, \b0010001110100011, \b1111110110010110, \b0111111011001011,
    \b1101001100100010, \b0110100110010001, \b1101100010001111, \b0000000000000011 >>

\* count_ones(row & word) % 2
RowParity(row, word) == Cardinality(Bits16(row) \cap Bits16(word)) % 2

\* matrix_mul_systematic!(word, mat, u64): the word followed by one bit per
\* row of mat, each the GF(2) product of the row and the word.  Row i of n
\* lands on bit n - i, the word on the bits above.
MatrixMulSystematic(word, mat) ==
    {b + Len(mat) : b \in Bits16(word)}
    \cup {Len(mat) - i : i \in {j \in 1..Len(mat) : RowParity(mat[j], word) = 1}}

\* Mutant of encode: the last row of the matrix covers all 16 data bits.
encode_LastRowAllBits(word) ==
    MatrixMulSystematic(word, SubSeq(GEN, 1, Len(GEN) - 1) \o <<\b1111111111111111>>)

encode(word) == MatrixMulSystematic(word, GEN)

---------------------------------------------------------------------------
(* BCH(63,16,23): syndromes, Berlekamp-Massey, Chien search, decode *)

\* Mutant of Syndrome: the top bit of the word is left out of the sum.
Syndrome_DropsTopBit(word, pow) ==
    GfSum([b \in 1..(FieldSize - 1) |->
              IF (b - 1) \in word THEN for_power((b - 1) * pow) ELSE 0],
          1, FieldSize - 1)

\* S_pow = sum of alpha^(b * pow) over the one bits b of the word.
Syndrome(word, pow) ==
    GfSum([b \in 1..FieldSize |->
              IF (b - 1) \in word THEN for_power((b - 1) * pow) ELSE 0],
          1, FieldSize)

\* syndromes(word): S_0 = alpha^0, then S_1 .. S_(distance - 1).
syndromes(word) ==
    PolyNew(<<for_power(0)>> \o [pow \in 1..(Distance - 1) |-> Syndrome(word, pow)])

\* Discrepancy at step n: sum over i in 0..L of lam_i * S_(n - i).
Discrepancy(lam, syn, L, n) ==
    GfSum([i \in 1..(L + 1) |-> GfMul(PolyCoef(lam, i - 1), PolyCoef(syn, n - (i - 1)))],
          1, L + 1)

\* One step of the Berlekamp-Massey recurrence.
BMStep(st, syn, n) ==
    LET delta == Discrepancy(st.lam, syn, st.L, n)
        next  == PolyAddScaledShift(st.lam, GfDiv(delta, st.b), st.m, st.B)
    IN  IF delta = 0 THEN [st EXCEPT !.m = st.m + 1]
        ELSE IF 2 * st.L <= n
             THEN [lam |-> next, B |-> st.lam, L |-> n + 1 - st.L, m |-> 1, b |-> delta]
             ELSE [st EXCEPT !.lam = next, !.m = st.m + 1]

RECURSIVE BMRun(_, _, _)
BMRun(st, syn, n) ==
    IF n >= Distance - 1 THEN st
    ELSE LET nx == BMStep(st, syn, n)
         IN  IF nx.m >= 1 THEN BMRun(nx, syn, n + 1) ELSE nx

\* BCHDecoder::new(syn).decode(): the error-locator polynomial.
BerlMassey(syn) ==
    BMRun([lam |-> PolyOne, B |-> PolyOne, L |-> 0, m |-> 1, b |-> 1], syn, 0).lam

\* Mutant of Errors: the value yielded is the locator's value at the root
\* (zero) instead of alpha^0.
Errors_ValueIsEval(poly, syn) ==
    {[loc |-> i, val |-> PolyEval(poly, for_power(FieldSize - i))] :
        i \in {j \in 0..(FieldSize - 1) :
                 PolyEval(poly, for_power(FieldSize - j)) = 0}}

\* bmcf::Errors::new(poly, syn): the (location, value) pairs the iterator
\* yields; location i is an error when poly(alpha^(-i)) = 0, value alpha^0.
Errors(poly, syn) ==
    {[loc |-> i, val |-> for_power(0)] :
        i \in {j \in 0..(FieldSize - 1) :
                 PolyEval(poly, for_power(FieldSize - j)) = 0}}

None == [tag |-> "None", data |-> 0, errs |-> 0]
Some(d, e) == [tag |-> "Some", data |-> d, errs |-> e]
Panic == [tag |-> "Panic", data |-> 0, errs |-> 0]

\* P25Codeword::power: the discrete log; NoDegree stands for "none".
GfPower(x) == IF x = 0 THEN NoDegree ELSE LogTable[x]

\* Mutant of StripParity: the parity bit is kept in the word.
StripParity_Kept(word64) == word64

\* let word = word >> 1: drop the P25 parity bit.
StripParity(word64) == ShiftRight(word64, 1)

\* Mutant of Correct: the bit above each location is flipped.
Correct_BitAbove(word, locs) == XorWord(word, {l.loc + 1 : l \in locs})

\* Mutant of Correct: the located bits are not flipped.
Correct_Nothing(word, locs) == word

\* The fold over the locations: w ^ 1 << loc for each one yielded.
Correct(word, locs) == XorWord(word, {l.loc : l \in locs})

\* (word >> 47) as u16: the 16 data bits of the 63-bit word.
DataBits(word) == FromBits(ShiftRight(word, 47) \cap 0..15, 0)

decode(word64) ==
    LET word   == StripParity(word64)
        syn    == syndromes(word)
        poly   == BerlMassey(syn)
        errors == PolyDegree(poly)
        locs   == Errors(poly, syn)
        fixed  == Correct(word, locs)
        count  == Cardinality(locs)
    IN  IF errors = NoDegree THEN Panic
        ELSE IF \E l \in locs : GfPower(l.val) # 0 THEN Panic
        ELSE IF count = errors
             THEN Some(DataBits(fixed), errors)
             ELSE None

\* The vectors of the source's tests (test_encode, test_syndromes,
\* test_decoder, test_locs), which the definitions above reproduce.
SourceTestVectors ==
    LET cw  == encode(\b1111111100000000)
        rx  == XorWord(cw, {61, 62})
        lam == BerlMassey(syndromes(StripParity(rx)))
        rx2 == XorWord(encode(\b0000111100001111), {61, 62})
    IN  /\ cw = {63, 62, 61, 60, 59, 58, 57, 56, 47, 44, 41, 40, 36, 31, 30, 25,
                 21, 20, 14, 13, 11, 6, 5, 3}
        /\ PolyDegree(syndromes(StripParity(cw))) = 0
        /\ PolyDegree(syndromes(XorWord(StripParity(cw), {60}))) = 22
        /\ PolyCoef(syndromes(StripParity(cw)), 0) = for_power(0)
        /\ GfPower(PolyCoef(lam, 0)) = 0
        /\ GfPower(PolyCoef(lam, 1)) = 3
        /\ GfPower(PolyCoef(lam, 2)) = 58
        /\ Errors(PolyNew(<<for_power(0), for_power(3), for_power(58)>>),
                  syndromes(StripParity(rx2)))
             = {[loc |-> 61, val |-> for_power(0)], [loc |-> 60, val |-> for_power(0)]}

---------------------------------------------------------------------------
(* The codec driven as a state machine: encode a word, corrupt it, decode *)

MaxBurst == 12

\* The data words of the source's tests, and 0b0100.
Words == { \b0000111100001111, \b1100011111111111, \b1111111100000000,
           \b1101101101010001, \b1111111111111111, \b0000000000000000,
           \b0000111110000000, \b0000111110001010, \b0000001111111111,
           \b0011, \b0101, \b1010, \b1100, \b1111, \b0100 }

\* k flipped bits from bit s upward, every step-th bit, within bits 1..63.
Burst(s, step, k) == {b \in {s + step * i : i \in 0..(k - 1)} : b <= 63}

Patterns ==
    { Burst(p[1], p[2], k) : p \in {<<1, 1>>, <<40, 1>>, <<52, 1>>, <<2, 5>>, <<17, 3>>},
                             k \in 0..MaxBurst }
    \cup { {0}, {63}, {63, 0}, {30, 31, 34, 36, 37}, 0..10,
           1..22,
           {1, 2, 3, 4, 5, 6, 7, 8, 9, 10, 13, 17, 20, 21, 25, 30, 32, 34, 36, 38, 41},
           {4, 9, 10, 15, 17, 22, 26, 32, 43, 49, 57, 60, 63},
           {1, 5, 7, 8, 9, 14, 16, 17, 18, 21, 25, 26} }

BchInit ==
    /\ data \in Words
    /\ err = {}
    /\ recv = {}
    /\ res = None
    /\ pc = "idle"
    /\ fed = <<>> /\ src = <<>> /\ sample = 0 /\ out = [some |-> FALSE, val |-> 0]
    /\ idx = 0 /\ devCalls = 0 /\ devOut = 0

Encode ==
    /\ pc = "idle"
    /\ recv' = encode(data)
    /\ pc' = "encoded"
    /\ UNCHANGED <<data, err, res, impVars, devVars>>

Corrupt ==
    /\ pc = "encoded"
    /\ \E e \in Patterns :
          /\ err' = e
          /\ recv' = XorWord(recv, e)
    /\ pc' = "received"
    /\ UNCHANGED <<data, res, impVars, devVars>>

Decode ==
    /\ pc = "received"
    /\ res' = decode(recv)
    /\ pc' = "decoded"
    /\ UNCHANGED <<data, err, recv, impVars, devVars>>

---------------------------------------------------------------------------
(* C4FM impulse shaper *)

\* consts::SYMBOL_PERIOD, samples per symbol.
SYMBOL_PERIOD == 10

MaxDibits == 3
MaxSamples == 45

ImpNone == [some |-> FALSE, val |-> 0]
ImpSome(v) == [some |-> TRUE, val |-> v]

\* Mutant of Impulse: the dibits are mapped in binary order.
Impulse_BinaryOrder(dibit) ==
    CASE dibit = 0 -> 18
      [] dibit = 1 -> 6
      [] dibit = 2 -> -6
      [] dibit = 3 -> -18

\* The scaled impulse of a dibit, in hundredths.
Impulse(dibit) ==
    CASE dibit = 1 -> 18
      [] dibit = 0 -> 6
      [] dibit = 2 -> -6
      [] dibit = 3 -> -18

DibitSeqs == UNION {[1..n -> 0..3] : n \in 0..MaxDibits}

\* C4fmImpulses::new(src)
ImpInit ==
    /\ fed \in DibitSeqs
    /\ src = fed
    /\ sample = 0
    /\ out = ImpNone
    /\ data = 0 /\ err = {} /\ recv = {} /\ res = None /\ pc = "idle"
    /\ idx = 0 /\ devCalls = 0 /\ devOut = 0

\* C4fmImpulses::next
ImpNext ==
    /\ sample < MaxSamples
    /\ sample' = sample + 1
    /\ IF sample % SYMBOL_PERIOD # 0
       THEN out' = ImpSome(0) /\ src' = src
       ELSE IF src # <<>>
            THEN out' = ImpSome(Impulse(Head(src))) /\ src' = Tail(src)
            ELSE out' = ImpNone /\ src' = src
    /\ UNCHANGED <<fed, bchVars, devVars>>

---------------------------------------------------------------------------
(* C4FM deviation-test pattern *)

MaxDevCalls == 120

\* C4fmDeviationDibits::new()
DevInit ==
    /\ idx = 0
    /\ devCalls = 0
    /\ devOut = 0
    /\ data = 0 /\ err = {} /\ recv = {} /\ res = None /\ pc = "idle"
    /\ fed = <<>> /\ src = <<>> /\ sample = 0 /\ out = ImpNone

\* Mutant of DevNext: the dibit is chosen from the advanced index.
DevNext_AdvancedIndex ==
    /\ devCalls < MaxDevCalls
    /\ idx' = (idx + 1) % 4
    /\ devOut' = (IF idx' < 2 THEN 1 ELSE 3)
    /\ devCalls' = devCalls + 1
    /\ UNCHANGED <<bchVars, impVars>>

\* C4fmDeviationDibits::next
DevNext ==
    /\ devCalls < MaxDevCalls
    /\ idx' = (idx + 1) % 4
    /\ devOut' = (IF idx < 2 THEN 1 ELSE 3)
    /\ devCalls' = devCalls + 1
    /\ UNCHANGED <<bchVars, impVars>>

---------------------------------------------------------------------------
(* Specifications: each component runs alone, the others stay as built *)

BchNext == Encode \/ Corrupt \/ Decode

SpecBch == BchInit /\ [][BchNext]_vars
SpecImpulses == ImpInit /\ [][ImpNext]_vars
SpecDeviation == DevInit /\ [][DevNext]_vars

---------------------------------------------------------------------------
(* Properties *)

\* Number of flipped bits among bits 1..63 of the codeword.
Flips == Cardinality(err \ {0})

\* Bits 63..1 in which the received word differs from the codeword of d.
DistanceTo(d) == Cardinality(XorWord(recv, encode(d)) \ {0})

\* C1: for every 16-bit word w, decode(encode(w)) is Some((w, 0)).
C1_RoundTrip ==
    (pc = "decoded" /\ err = {}) => res = Some(data, 0)

C1_Witness ==
    pc = "decoded" /\ err = {} /\ data = \b1111111100000000 /\ res = Some(data, 0)

\* C2: with at most 11 of the bits 1..63 flipped, decode returns the
\* original data and exactly the number of flipped bits.
C2_CorrectsUpTo11 ==
    (pc = "decoded" /\ Flips <= 11) => res = Some(data, Flips)

C2_Witness ==
    pc = "decoded" /\ Flips = 11 /\ err = 1..11 /\ res = Some(data, 11)

C4_ParityBitIgnored ==
    pc = "decoded" =>
        /\ res = decode(XorWord(recv, {0}))
        /\ err = {0} => res = Some(data, 0)

C4_Witness ==
    pc = "decoded" /\ err = {0} /\ recv = XorWord(encode(data), {0})
    /\ res = Some(data, 0)

\* C5 as claimed: bit 0 of encode(w) is 1 exactly when w has odd popcount.
C5_ParityOfWord ==
    pc = "encoded" => (0 \in recv <=> Cardinality(Bits16(data)) % 2 = 1)

\* C5 amended: bit 0 of encode(w) is the GF(2) product of w and the last
\* row of GEN, 0b11: it is 1 exactly when bits 0 and 1 of w differ.
C5_ParityOfLowBits ==
    pc = "encoded" => (0 \in recv <=> Cardinality(Bits16(data) \cap {0, 1}) = 1)

C5_Witness ==
    pc = "encoded" /\ data = \b0101 /\ 0 \in recv

\* The impulse table of C6, in hundredths: 01 -> +0.18, 00 -> +0.06,
\* 10 -> -0.06, 11 -> -0.18.
C6_Table == [d \in 0..3 |-> IF d = 1 THEN 18 ELSE IF d = 0 THEN 6
                             ELSE IF d = 2 THEN -6 ELSE -18]

\* C6: fed n dibits, call k + 1 (k < n * P) returns the impulse of dibit
\* k / P when k is a multiple of P and 0.0 otherwise, and call n * P + 1
\* returns the first end-of-sequence.
C6_SamplesPerDibit ==
    sample >= 1 =>
        LET k == sample - 1
            n == Len(fed)
        IN  /\ k < n * SYMBOL_PERIOD =>
                out = ImpSome(IF k % SYMBOL_PERIOD = 0
                              THEN C6_Table[fed[(k \div SYMBOL_PERIOD) + 1]]
                              ELSE 0)
            /\ k = n * SYMBOL_PERIOD => out = ImpNone

C6_Witness ==
    /\ fed = <<0, 1>>
    /\ sample = 2 * SYMBOL_PERIOD + 1
    /\ out = ImpNone
    /\ src = <<>>

\* C7: call k (from 0) of the deviation pattern returns dibit 01 when
\* k mod 4 is 0 or 1 and dibit 11 when it is 2 or 3; idx stays in 0..3.
C7_DeviationPeriod ==
    /\ idx \in 0..3
    /\ idx = devCalls % 4
    /\ devCalls >= 1 =>
          devOut = (IF (devCalls - 1) % 4 \in {0, 1} THEN 1 ELSE 3)

C7_Witness ==
    devCalls = 7 /\ devOut = 3 /\ idx = 3

C9_StaysTerminated ==
    [][(sample >= 1 /\ out = ImpNone) => out' = ImpNone]_vars

\* C10: whenever decode returns Some((data, err)), bits 63..1 of the input
\* differ from those of encode(data) in exactly err positions, and
\* err <= 11.
C10_ResultIsNearCodeword ==
    (pc = "decoded" /\ res.tag = "Some") =>
        /\ DistanceTo(res.data) = res.errs
        /\ res.errs <= 11

===========================================================================
